---- MODULE Spec2Model ----
(***************************************************************************)
(* unionize: generation of a C-style union from a template struct.         *)
(*                                                                         *)
(* The module models the generator (src/example/README.md, lines 17-226,   *)
(* which hold the Go source of the tool) as one run of main split at its   *)
(* exits, and the generated union as a block of bytes with one Put/Get     *)
(* pair per field (the accessor templates are not part of the sources; the *)
(* caller src/example/main.go is).                                         *)
(***************************************************************************)
EXTENDS Integers, Sequences, FiniteSets, TLC

\* ------------------------------------------------------------------------
\* Bounds of the model
\* ------------------------------------------------------------------------
\* largest number of fields of a template struct given to the generator
MaxFields == 3
\* largest number of fields of a template whose generated union is exercised
MaxUnionFields == 2
\* largest number of writes made to a generated union
MaxPuts == 3

\* ------------------------------------------------------------------------
\* The type universe: what go/types reports about the field types
\* ------------------------------------------------------------------------
\* "odd12" and "wide16" stand for types whose alignment a types.Sizes
\* implementation reports as 12 and 16: values outside the alignments table.
FieldTypes ==
  {"uint32", "uint16", "[3]byte", "struct{}", "error", "Local", "x.T", "y.V",
   "odd12", "wide16"}

\* the integer types whose values the union accessors move
IntTypes == {"uint8", "uint16", "uint32"}

\* (*types.Package)(nil)
NilPkg == "<nil>"
\* the package the template is declared in (pkg.Types)
HomePkg == "home"

\* lookup.Sizeof(f.Type())
Sizeof(t) ==
  CASE t = "uint8"    -> 1
    [] t = "uint16"   -> 2
    [] t = "uint32"   -> 4
    [] t = "uint64"   -> 8
    [] t = "[3]byte"  -> 3
    [] t = "struct{}" -> 0
    [] t = "error"    -> 16
    [] t = "Local"    -> 12
    [] t = "x.T"      -> 8
    [] t = "y.V"      -> 1
    [] t = "odd12"    -> 12
    [] t = "wide16"   -> 16

\* lookup.Alignof(f.Type())
Alignof(t) ==
  CASE t = "uint8"    -> 1
    [] t = "uint16"   -> 2
    [] t = "uint32"   -> 4
    [] t = "[3]byte"  -> 1
    [] t = "struct{}" -> 1
    [] t = "error"    -> 8
    [] t = "Local"    -> 4
    [] t = "x.T"      -> 8
    [] t = "y.V"      -> 1
    [] t = "odd12"    -> 12
    [] t = "wide16"   -> 16

\* f.typ.(*types.Named): the type is a defined (named) type
IsNamed(t) == t \in {"error", "Local", "x.T", "y.V"}

\* t.Obj().Pkg(): nil for the predeclared error type
ObjPkg(t) ==
  CASE t = "Local" -> HomePkg
    [] t = "x.T"   -> "pkg/x"
    [] t = "y.V"   -> "pkg/y"
    [] OTHER       -> NilPkg

\* t.Obj().Name()
ObjName(t) ==
  CASE t = "x.T" -> "T"
    [] t = "y.V" -> "V"
    [] OTHER     -> t

\* other.Name(): the last element of the package path
PkgName(p) ==
  CASE p = "pkg/x" -> "x"
    [] p = "pkg/y" -> "y"
    [] OTHER       -> p

\* the qualifier qual(pkg) builds: "" for pkg itself, the package name for
\* any other package
qual(pkg, other) == IF pkg = other THEN "" ELSE PkgName(other)

\* types.TypeString(f.typ, qual(pkg)): a named type is written with its
\* qualifier when it has a package and the qualifier is not empty
TypeString(t, pkg) ==
  IF IsNamed(t) /\ ObjPkg(t) # NilPkg /\ qual(pkg, ObjPkg(t)) # ""
  THEN qual(pkg, ObjPkg(t)) \o "." \o ObjName(t)
  ELSE ObjName(t)

\* ------------------------------------------------------------------------
\* Template structs
\* ------------------------------------------------------------------------
FieldName(i) == "i" \o ToString(i)

\* a *types.Struct with the given field types, fields named i1, i2, ...
StructOf(ts) == [i \in 1..Len(ts) |-> [name |-> FieldName(i), typ |-> ts[i]]]

TypeSeqs(S, n) == UNION {[1..k -> S] : k \in 0..n}

\* the structs FindUnion can return
Templates == {StructOf(ts) : ts \in TypeSeqs(FieldTypes, MaxFields)}

\* ------------------------------------------------------------------------
\* alignments (the AlignmentTable)
\* ------------------------------------------------------------------------
alignments == (1 :> "uint8") @@ (2 :> "uint16") @@ (4 :> "uint32") @@ (8 :> "uint64")

\* alignments[align]: a Go map read, "" for a missing key
AlignmentsGet(a) == IF a \in DOMAIN alignments THEN alignments[a] ELSE ""

\* ------------------------------------------------------------------------
\* UnionSize
\* ------------------------------------------------------------------------
RECURSIVE ScanFields(_, _, _, _)
\* the for loop of UnionSize, from field i on
ScanFields(s, i, maxsz, maxalign) ==
  IF i > Len(s) THEN [maxsz |-> maxsz, maxalign |-> maxalign]
  ELSE LET sz    == Sizeof(s[i].typ)
           align == Alignof(s[i].typ)
       IN ScanFields(s, i + 1,
                     IF sz > maxsz THEN sz ELSE maxsz,
                     IF align > maxalign THEN align ELSE maxalign)

RECURSIVE ScanFieldsLargest(_, _, _, _)
\* the loop keeping the alignment of the field with the largest size
ScanFieldsLargest(s, i, maxsz, maxalign) ==
  IF i > Len(s) THEN [maxsz |-> maxsz, maxalign |-> maxalign]
  ELSE LET sz    == Sizeof(s[i].typ)
           align == Alignof(s[i].typ)
       IN ScanFieldsLargest(s, i + 1,
                            IF sz > maxsz THEN sz ELSE maxsz,
                            IF sz > maxsz \/ maxalign = 0 THEN align ELSE maxalign)

\* UnionSize taking the alignment of the largest field instead of the
\* largest alignment
UnionSizeLargestField(s) ==
  LET m == ScanFieldsLargest(s, 1, 0, 0) IN
  IF m.maxalign = 0
  THEN [panic |-> TRUE, size |-> 0, align |-> 0]
  ELSE [panic |-> FALSE,
        size  |-> IF m.maxsz % m.maxalign # 0
                  THEN m.maxsz - (m.maxsz % m.maxalign) + m.maxalign
                  ELSE m.maxsz,
        align |-> m.maxalign]

\* UnionSize(s, lookup).  maxsz%maxalign with maxalign = 0 is an integer
\* division by zero: the Go runtime panics.
UnionSize(s) ==
  LET m == ScanFields(s, 1, 0, 0) IN
  IF m.maxalign = 0
  THEN [panic |-> TRUE, size |-> 0, align |-> 0]
  ELSE [panic |-> FALSE,
        size  |-> IF m.maxsz % m.maxalign # 0
                  THEN m.maxsz - (m.maxsz % m.maxalign) + m.maxalign
                  ELSE m.maxsz,
        align |-> m.maxalign]

\* ------------------------------------------------------------------------
\* UnionFields, GetImports, StringUnion
\* ------------------------------------------------------------------------
\* UnionFields(s): name and type of every field, in declaration order
UnionFields(s) == [i \in 1..Len(s) |-> [name |-> s[i].name, typ |-> s[i].typ]]

\* "\"" + path + "\""
Quote(p) == "\"" \o p \o "\""

RECURSIVE ImportsFrom(_, _, _, _)
\* the for loop of GetImports, from field i on.  t.Obj().Pkg().Path() on a
\* nil package dereferences a nil pointer: the Go runtime panics.
ImportsFrom(fields, pkg, i, imports) ==
  IF i > Len(fields) THEN [panic |-> FALSE, imports |-> imports]
  ELSE LET t == fields[i].typ IN
       IF IsNamed(t) /\ pkg # ObjPkg(t)
       THEN IF ObjPkg(t) = NilPkg
            THEN [panic |-> TRUE, imports |-> imports]
            ELSE ImportsFrom(fields, pkg, i + 1, Append(imports, Quote(ObjPkg(t))))
       ELSE ImportsFrom(fields, pkg, i + 1, imports)

\* GetImports(fields, pkg)
GetImports(fields, pkg) == ImportsFrom(fields, pkg, 1, <<>>)

\* the alignment check of main: the alignment used and whether the warning
\* is printed
\* the alignment check with 16 taken for a supported alignment
CheckAlignmentWide(a) ==
  IF a \in DOMAIN alignments \/ a = 16
  THEN [align |-> a, warned |-> FALSE]
  ELSE [align |-> 8, warned |-> TRUE]

CheckAlignment(a) ==
  IF a \in DOMAIN alignments
  THEN [align |-> a, warned |-> FALSE]
  ELSE [align |-> 8, warned |-> TRUE]

\* StringUnion without the division of the size by the alignment
StringUnionNoDiv(name, size, align, fields, pkg) ==
  [name      |-> name,
   typ       |-> AlignmentsGet(align),
   count     |-> size,
   accessors |-> [i \in 1..Len(fields) |->
                    [union |-> name, field |-> fields[i].name,
                     typ |-> TypeString(fields[i].typ, pkg)]]]

\* StringUnion(name, size, align, fields, pkg): the storage declaration
\* [count]typ and one accessor pair per field
StringUnion(name, size, align, fields, pkg) ==
  [name      |-> name,
   typ       |-> AlignmentsGet(align),
   count     |-> size \div align,
   accessors |-> [i \in 1..Len(fields) |->
                    [union |-> name, field |-> fields[i].name,
                     typ |-> TypeString(fields[i].typ, pkg)]]]

NoUnion == [name |-> "", typ |-> "", count |-> 0, accessors |-> <<>>]
NoBuf == [pkg |-> "", imports |-> <<>>, union |-> NoUnion]
NoOutput == [formatted |-> FALSE, src |-> NoBuf]
NoStruct == [found |-> FALSE, fields |-> <<>>]

\* go/format: a package clause and a type name must be identifiers
IsIdentifier(s) == s \in {"main", "TemplateUnion", "U"}

\* format.Source(buf.Bytes()) succeeds
FormatOk(b) == IsIdentifier(b.pkg) /\ IsIdentifier(b.union.name)

VARIABLES
  pc,        \* position of main
  flagPkg,   \* -pkg
  flagUnion, \* -otype
  flagFile,  \* -output
  strct,     \* result of FindUnion
  unionName,
  sz, align, \* the locals sz, align of main
  fields, imports,
  buf,       \* the generated text before formatting
  output,    \* the result of format.Source
  stdout, stderr, file,  \* what was written to os.Stdout, os.Stderr, *flagFile
  exitCode,
  panic,     \* the runtime panic that ended the run, "" for none
  gen,       \* the generated union type in use by a program
  u,         \* the bytes of a variable of the generated union type
  puts,      \* the writes made to u, in order
  got        \* the last read of a field of u

vars == <<pc, flagPkg, flagUnion, flagFile, strct, unionName, sz, align,
          fields, imports, buf, output, stdout, stderr, file, exitCode,
          panic, gen, u, puts, got>>

runVars == <<pc, flagPkg, flagUnion, flagFile, strct, unionName, sz, align,
             fields, imports, buf, output, stdout, stderr, file, exitCode,
             panic>>

unionVars == <<gen, u, puts, got>>

NoGot == [field |-> 0, value |-> <<>>]

Init ==
  /\ pc = "start"
  /\ flagPkg = "main" /\ flagUnion = "" /\ flagFile = ""
  /\ strct = NoStruct
  /\ unionName = ""
  /\ sz = 0 /\ align = 0
  /\ fields = <<>> /\ imports = <<>>
  /\ buf = NoBuf /\ output = NoOutput
  /\ stdout = <<>> /\ stderr = <<>> /\ file = <<>>
  /\ exitCode = 0
  /\ panic = ""
  /\ gen = NoUnion /\ u = <<>> /\ puts = <<>> /\ got = NoGot

\* os.Exit(code)
Exit(code) == pc' = "exit" /\ exitCode' = code

\* flag.Parse and the argument count check
ParseArgs ==
  /\ pc = "start"
  /\ \E n \in 1..3, p \in {"main", "bad pkg"}, o \in {"", "U"}, f \in {"", "out.go"} :
       /\ flagPkg' = p /\ flagUnion' = o /\ flagFile' = f
       /\ IF n # 2
          THEN /\ stdout' = stdout \o <<"usage">>
               /\ stderr' = stderr \o <<"Invalid number of arguments", "flag defaults">>
               /\ Exit(1)
          ELSE /\ pc' = "load"
               /\ UNCHANGED <<stdout, stderr, exitCode>>
  /\ UNCHANGED <<strct, unionName, sz, align, fields, imports, buf, output,
                 file, panic, unionVars>>

\* packages.Load and its three failures
Load ==
  /\ pc = "load"
  /\ \E err \in BOOLEAN, nerrors \in 0..1, npkgs \in 0..1 :
       IF err
       THEN stderr' = Append(stderr, "load") /\ Exit(1)
       ELSE IF nerrors > 0
       THEN stderr' = Append(stderr, "package errors") /\ Exit(1)
       ELSE IF npkgs <= 0
       THEN stderr' = Append(stderr, "Error: no package found") /\ Exit(1)
       ELSE pc' = "find" /\ UNCHANGED <<stderr, exitCode>>
  /\ UNCHANGED <<flagPkg, flagUnion, flagFile, strct, unionName, sz, align,
                 fields, imports, buf, output, stdout, file, panic, unionVars>>

\* FindUnion: nil, or the struct a definition of that name has
Find ==
  /\ pc = "find"
  /\ \E s \in {NoStruct} \cup {[found |-> TRUE, fields |-> t] : t \in Templates} :
       /\ strct' = s
       /\ IF ~s.found
          THEN stderr' = Append(stderr, "Error: could not find struct to unionize")
               /\ Exit(1)
          ELSE pc' = "size" /\ UNCHANGED <<stderr, exitCode>>
  /\ UNCHANGED <<flagPkg, flagUnion, flagFile, unionName, sz, align, fields,
                 imports, buf, output, stdout, file, panic, unionVars>>

\* the union's name and the call of UnionSize
Size ==
  /\ pc = "size"
  /\ unionName' = IF flagUnion # "" THEN flagUnion ELSE "Template" \o "Union"
  /\ LET r == UnionSize(strct.fields) IN
       IF r.panic
       THEN /\ panic' = "integer divide by zero"
            /\ stderr' = Append(stderr, "panic")
            /\ Exit(2)
            /\ UNCHANGED <<sz, align>>
       ELSE /\ sz' = r.size /\ align' = r.align
            /\ pc' = "align"
            /\ UNCHANGED <<panic, stderr, exitCode>>
  /\ UNCHANGED <<flagPkg, flagUnion, flagFile, strct, fields, imports, buf,
                 output, stdout, file, unionVars>>

\* the alignment fallback: fmt.Printf writes the warning to os.Stdout
Align ==
  /\ pc = "align"
  /\ LET c == CheckAlignment(align) IN
       /\ align' = c.align
       /\ stdout' = IF c.warned THEN Append(stdout, "warning") ELSE stdout
  /\ pc' = "resolve"
  /\ UNCHANGED <<flagPkg, flagUnion, flagFile, strct, unionName, sz, fields,
                 imports, buf, output, stderr, file, exitCode, panic, unionVars>>

\* UnionFields and GetImports
Resolve ==
  /\ pc = "resolve"
  /\ fields' = UnionFields(strct.fields)
  /\ LET r == GetImports(fields', HomePkg) IN
       IF r.panic
       THEN /\ panic' = "nil pointer dereference"
            /\ stderr' = Append(stderr, "panic")
            /\ Exit(2)
            /\ UNCHANGED imports
       ELSE /\ imports' = r.imports
            /\ pc' = "build"
            /\ UNCHANGED <<panic, stderr, exitCode>>
  /\ UNCHANGED <<flagPkg, flagUnion, flagFile, strct, unionName, sz, align,
                 buf, output, stdout, file, unionVars>>

\* the buffer: header, package clause, imports, StringUnion
Build ==
  /\ pc = "build"
  /\ buf' = [pkg |-> flagPkg, imports |-> imports,
             union |-> StringUnion(unionName, sz, align, fields, HomePkg)]
  /\ pc' = "format"
  /\ UNCHANGED <<flagPkg, flagUnion, flagFile, strct, unionName, sz, align,
                 fields, imports, output, stdout, stderr, file, exitCode,
                 panic, unionVars>>

\* format.Source and the fallback to the unformatted text
Format ==
  /\ pc = "format"
  /\ IF ~FormatOk(buf)
     THEN /\ stdout' = Append(stdout, "unformatted")
          /\ stderr' = stderr \o <<"Error with union generation", "format">>
          /\ Exit(1)
          /\ UNCHANGED output
     ELSE /\ output' = [formatted |-> TRUE, src |-> buf]
          /\ pc' = "emit"
          /\ UNCHANGED <<stdout, stderr, exitCode>>
  /\ UNCHANGED <<flagPkg, flagUnion, flagFile, strct, unionName, sz, align,
                 fields, imports, buf, file, panic, unionVars>>

\* the output file or os.Stdout; main returns.  The writes to the streams
\* and to the file are taken to succeed (main ignores their errors).
Emit ==
  /\ pc = "emit"
  /\ IF flagFile # ""
     THEN file' = Append(file, "formatted") /\ UNCHANGED stdout
     ELSE stdout' = Append(stdout, "formatted") /\ UNCHANGED file
  /\ Exit(0)
  /\ UNCHANGED <<flagPkg, flagUnion, flagFile, strct, unionName, sz, align,
                 fields, imports, buf, output, stderr, panic, unionVars>>

\* ------------------------------------------------------------------------
\* The generated union in use (the accessors of src/example/main.go)
\* ------------------------------------------------------------------------
\* the union main generates for a template with the given field types
GenUnion(ts) ==
  LET s == StructOf(ts)
      r == UnionSize(s)
      c == CheckAlignment(r.align)
  IN StringUnion("Template" \o "Union", r.size, c.align, UnionFields(s), HomePkg)

\* a value of an integer type, as its bytes, most significant first
Values(t) ==
  CASE t = "uint8"  -> {<<206>>, <<1>>}
    [] t = "uint16" -> {<<250, 206>>, <<1, 2>>}
    [] t = "uint32" -> {<<222, 173, 190, 239>>, <<1, 2, 3, 4>>}

\* the bytes of a value in memory order on a little-endian target
LittleEndian(v) == [k \in 1..Len(v) |-> v[Len(v) + 1 - k]]

\* *(*T)(unsafe.Pointer(&u.data)) = v: the bytes of v stored from offset 0
Put(mem, v) ==
  [k \in 1..Len(mem) |-> IF k <= Len(v) THEN LittleEndian(v)[k] ELSE mem[k]]

\* *(*T)(unsafe.Pointer(&u.data)): the value in the first n bytes
Get(mem, n) ==
  LET m == IF n <= Len(mem) THEN n ELSE Len(mem)
  IN LittleEndian(SubSeq(mem, 1, m))

\* var u TemplateUnion: the zero value of the storage array
ZeroUnion(g) == [k \in 1..(g.count * Sizeof(g.typ)) |-> 0]

InitUnion ==
  /\ pc = "exit"
  /\ flagPkg = "main" /\ flagUnion = "" /\ flagFile = "out.go"
  /\ strct = NoStruct
  /\ unionName = ""
  /\ sz = 0 /\ align = 0
  /\ fields = <<>> /\ imports = <<>>
  /\ buf = NoBuf /\ output = NoOutput
  /\ stdout = <<>> /\ stderr = <<>> /\ file = <<>>
  /\ exitCode = 0
  /\ panic = ""
  /\ \E ts \in TypeSeqs(IntTypes, MaxUnionFields) :
       /\ Len(ts) >= 1
       /\ gen = GenUnion(ts)
       /\ u = ZeroUnion(gen)
  /\ puts = <<>>
  /\ got = NoGot

\* u.<field>Put(v)
UPut ==
  /\ Len(puts) < MaxPuts
  /\ \E i \in 1..Len(gen.accessors) :
       \E v \in Values(gen.accessors[i].typ) :
         /\ u' = Put(u, v)
         /\ puts' = Append(puts, [field |-> i, value |-> v])
  /\ UNCHANGED <<gen, got, runVars>>

\* u.<field>()
UGet ==
  /\ \E i \in 1..Len(gen.accessors) :
       got' = [field |-> i, value |-> Get(u, Sizeof(gen.accessors[i].typ))]
  /\ UNCHANGED <<gen, u, puts, runVars>>

NextUnion ==
  \/ UPut
  \/ UGet

SpecUnion == InitUnion /\ [][NextUnion]_vars

\* ------------------------------------------------------------------------
\* Properties
\* ------------------------------------------------------------------------
SetMax(S) == CHOOSE m \in S : \A x \in S : x <= m

Occurrences(seq, x) == Cardinality({k \in 1..Len(seq) : seq[k] = x})

Contains(seq, x) == \E k \in 1..Len(seq) : seq[k] = x

FieldSizes(s) == {Sizeof(s[i].typ) : i \in 1..Len(s)}
FieldAligns(s) == {Alignof(s[i].typ) : i \in 1..Len(s)}
FieldTypesOf(s) == [i \in 1..Len(s) |-> s[i].typ]

\* main is past the alignment check
AlignChecked ==
  /\ strct.found
  /\ panic # "integer divide by zero"
  /\ pc \in {"resolve", "build", "format", "emit", "exit"}

\* main is past the construction of the text
Built == buf # NoBuf

\* the formatted text was written exactly once, to the chosen destination
EmittedOnce ==
  IF flagFile = ""
  THEN Occurrences(stdout, "formatted") = 1 /\ file = <<>>
  ELSE file = <<"formatted">> /\ ~Contains(stdout, "formatted")

\* C1: for a template with at least one field UnionSize does not fail and
\* returns the largest field alignment and the smallest multiple of it that
\* is at least the largest field size, the two maxima taken independently;
\* {i1 uint32, i2 uint16} gives size 4, alignment 4.
C1_Layout ==
  /\ (strct.found /\ Len(strct.fields) >= 1) => panic # "integer divide by zero"
  /\ pc = "align" =>
       LET ms == SetMax(FieldSizes(strct.fields))
           ma == SetMax(FieldAligns(strct.fields))
       IN /\ align = ma
          /\ sz >= ms
          /\ sz % ma = 0
          /\ sz - ma < ms
          /\ (ms % ma = 0 => sz = ms)
          /\ (FieldTypesOf(strct.fields) = <<"uint32", "uint16">>
                => sz = 4 /\ align = 4)

\* the largest size (3, of [3]byte) and the largest alignment (2, of uint16)
\* come from different fields, and the size is rounded up to 4
C1_Witness ==
  /\ pc = "align"
  /\ FieldTypesOf(strct.fields) = <<"[3]byte", "uint16">>
  /\ sz = 4 /\ align = 2

\* C2: the element count times the alignment in use is exactly the layout
\* size, for every alignment, substituted or not, and so covers the largest
\* field.
C2_ExactCount ==
  (Built /\ strct.found) =>
     /\ buf.union.count * align = sz
     /\ buf.union.count * align >= SetMax(FieldSizes(strct.fields))

\* The state part of C3: every field is stored at offset 0.  A write of a
\* field replaces the first sizeOf(field) bytes, little-endian, and no other
\* byte; a read returns the value in the first sizeOf(field) bytes; the
\* field written last reads back as written; for {i1 uint32, i2 uint16}
\* the storage has 4 bytes and after i1Put(0xdeadbeef), i2Put(0xface) i1
\* reads 0xdeadface and i2 reads 0xface.
C3_Invariant ==
  /\ \A i \in 1..Len(gen.accessors) : Sizeof(gen.accessors[i].typ) <= Len(u)
  /\ puts # <<>> =>
       LET p == puts[Len(puts)]
       IN Get(u, Sizeof(gen.accessors[p.field].typ)) = p.value
  /\ (Len(gen.accessors) = 2 /\ gen.accessors[1].typ = "uint32"
        /\ gen.accessors[2].typ = "uint16") =>
       /\ Len(u) = 4
       /\ gen.typ = "uint32"
       /\ puts = <<[field |-> 1, value |-> <<222, 173, 190, 239>>],
                   [field |-> 2, value |-> <<250, 206>>]>> =>
            /\ Get(u, 4) = <<222, 173, 250, 206>>
            /\ Get(u, 2) = <<250, 206>>
            /\ u = <<206, 250, 173, 222>>

C3_Write ==
  puts' # puts =>
    LET v == puts'[Len(puts')].value
        n == Len(v)
    IN /\ Len(u') = Len(u)
       /\ \A k \in 1..Len(u) :
            u'[k] = IF k <= n THEN v[n + 1 - k] ELSE u[k]

C3_Read ==
  got' # got =>
    LET n == Sizeof(gen.accessors[got'.field].typ)
    IN /\ Len(got'.value) = n
       /\ \A k \in 1..n : got'.value[n + 1 - k] = u[k]
       /\ u' = u

\* C3: all fields alias the storage at offset 0: the state invariant above
\* (fields fit the storage, the field written last reads back, the README
\* example reads 0xdeadface / 0xface), every write replaces exactly the
\* first sizeOf(field) bytes and every read returns exactly those bytes.
C3_Aliasing == []C3_Invariant /\ [][C3_Write /\ C3_Read]_vars

\* the example of src/example/main.go: i1 read after the two writes
C3_Witness ==
  /\ puts = <<[field |-> 1, value |-> <<222, 173, 190, 239>>],
              [field |-> 2, value |-> <<250, 206>>]>>
  /\ got = [field |-> 1, value |-> <<222, 173, 250, 206>>]
  /\ Len(u) = 4

\* the part of C4 that does not depend on how the run ends: an alignment of
\* the table is used unchanged with the element type of that width and no
\* warning, any other is replaced by 8 with exactly one warning
C4_Substitution ==
  AlignChecked =>
    LET a == SetMax(FieldAligns(strct.fields))
        warnings == Occurrences(stdout, "warning") + Occurrences(stderr, "warning")
    IN /\ a \in {1, 2, 4, 8} =>
            /\ align = a
            /\ warnings = 0
            /\ Built => Sizeof(buf.union.typ) = a
       /\ a \notin {1, 2, 4, 8} =>
            /\ align = 8
            /\ warnings = 1
            /\ Built => buf.union.typ = "uint64"

Substituted ==
  AlignChecked /\ SetMax(FieldAligns(strct.fields)) \notin {1, 2, 4, 8}

\* C4 as stated: after a substitution the run always completes, produces
\* the union and exits with code 0.
C4_Original ==
  /\ C4_Substitution
  /\ (Substituted /\ pc = "exit") => (exitCode = 0 /\ EmittedOnce)

\* C4: as amended.  The alignment check never ends the run; a run that
\* substituted the alignment ends either with the union produced and exit
\* code 0, or in a failure of a later step: the formatter rejecting the text
\* (exit 1, unformatted text) or the Reference Resolver crashing (exit 2).
C4_Amended ==
  /\ C4_Substitution
  /\ (Substituted /\ pc = "exit") =>
       \/ exitCode = 0 /\ EmittedOnce /\ panic = ""
       \/ exitCode = 1 /\ Contains(stderr, "format") /\ ~FormatOk(buf)
       \/ exitCode = 2 /\ panic = "nil pointer dereference"
  /\ (AlignChecked /\ pc = "exit" /\ panic = "" /\ FormatOk(buf)) =>
       (exitCode = 0 /\ EmittedOnce)

\* a run that substituted alignment 8 for 16, warned once and exited 0
C4_Witness ==
  /\ pc = "exit" /\ exitCode = 0
  /\ FieldTypesOf(strct.fields) = <<"wide16">>
  /\ align = 8
  /\ Occurrences(stdout, "warning") = 1
  /\ buf.union.typ = "uint64"
  /\ EmittedOnce

\* the packages other than the home package that own a field's type
ExternalPkgs(fs) ==
  {ObjPkg(fs[i].typ) : i \in {k \in 1..Len(fs) :
       IsNamed(fs[k].typ) /\ ObjPkg(fs[k].typ) \notin {HomePkg, NilPkg}}}

\* the first field whose type is owned by package p
FirstField(fs, p) ==
  SetMax({0 - k : k \in {j \in 1..Len(fs) : IsNamed(fs[j].typ) /\ ObjPkg(fs[j].typ) = p}})

\* C5: GetImports returns every package other than the home package that
\* owns a field's type exactly once, in order of first encounter.
C5_ImportsOnce ==
  pc = "build" =>
    /\ Len(imports) = Cardinality(ExternalPkgs(fields))
    /\ \A p \in ExternalPkgs(fields) : Occurrences(imports, Quote(p)) = 1
    /\ \A p, q \in ExternalPkgs(fields) :
         \A i, j \in 1..Len(imports) :
           (imports[i] = Quote(p) /\ imports[j] = Quote(q) /\ i < j)
             => FirstField(fields, p) > FirstField(fields, q)

\* C6: a template with zero fields never reaches UnionSize; the run ends as
\* a NotFound failure with a non-zero exit and no union emitted.
C6_ZeroFieldsRejected ==
  /\ ~(pc = "size" /\ Len(strct.fields) = 0)
  /\ (pc = "exit" /\ strct.found /\ Len(strct.fields) = 0) =>
       /\ exitCode # 0
       /\ Contains(stderr, "Error: could not find struct to unionize")
       /\ panic = ""
       /\ stdout = <<>> /\ file = <<>>

RunSuccess == exitCode = 0 /\ EmittedOnce /\ ~Contains(stdout, "unformatted")

RunFatal == exitCode # 0 /\ stderr # <<>> /\ stdout = <<>> /\ file = <<>>

RunEmissionFailure ==
  /\ exitCode # 0
  /\ Contains(stdout, "unformatted")
  /\ ~Contains(stdout, "formatted")
  /\ Contains(stderr, "Error with union generation")
  /\ file = <<>>

\* C7: every run ends in exactly one of success (exit 0, formatted text
\* emitted once to the destination), fatal failure (non-zero exit, a
\* diagnostic, nothing on the primary output stream or in the file) and
\* EmissionFailure (unformatted text on the primary output stream, the
\* failure on the diagnostic stream, non-zero exit).
C7_Outcomes ==
  pc = "exit" =>
    /\ RunSuccess \/ RunFatal \/ RunEmissionFailure
    /\ ~(RunSuccess /\ RunFatal)
    /\ ~(RunSuccess /\ RunEmissionFailure)
    /\ ~(RunFatal /\ RunEmissionFailure)

\* C8: the alignment warning is never written to the primary output stream;
\* a run to standard output that substituted the alignment leaves only the
\* generated text there.
C8_WarningOnDiagnostic ==
  /\ ~Contains(stdout, "warning")
  /\ (Substituted /\ pc = "exit" /\ exitCode = 0 /\ flagFile = "")
       => stdout = <<"formatted">>

\* C9: GetImports never fails, and a field whose type has no owning package
\* or is declared in the home package adds no entry.
C9_ResolverTotal ==
  /\ panic # "nil pointer dereference"
  /\ pc = "build" =>
       /\ \A k \in 1..Len(imports) :
            \E p \in ExternalPkgs(fields) : imports[k] = Quote(p)
       /\ ExternalPkgs(fields) = {} => imports = <<>>

\* C10: UnionSize never fails, and returns size 0, alignment 0 for a
\* template with zero fields.
C10_LayoutTotal ==
  /\ panic # "integer divide by zero"
  /\ (pc = "align" /\ Len(strct.fields) = 0) => (sz = 0 /\ align = 0)

Next ==
  \/ ParseArgs
  \/ Load
  \/ Find
  \/ Size
  \/ Align
  \/ Resolve
  \/ Build
  \/ Format
  \/ Emit

Spec == Init /\ [][Next]_vars

====
